---- MODULE Spec2Model ----
(***************************************************************************)
(* A model of battleships.py: the Board (ship placement, shots, game-over), *)
(* the two placement loops (AIBoard.__init__, PlayerBoard.__init__) and the *)
(* turn loop of Game.play.                                                  *)
(***************************************************************************)
EXTENDS Integers, Sequences, FiniteSets, TLC

\* ------------------------------------------------------------- bounds

\* Board.size: the side of the square boards that are explored.
size == 2

\* The longest ship an add_ship call of the Board interface is given.
MaxShipLen == 2

\* The number of Board interface calls explored from an empty board.
MaxCalls == 3

\* ------------------------------------------------------------- values

NORTH == 0
EAST == 1
SOUTH == 2
WEST == 3

Direction == {NORTH, EAST, SOUTH, WEST}

\* Python's None, as get_input returns it for "no click"; it is in no
\* range(size) and equal to no coordinate or ship length.
None == -2

\* next going round the other way
next_backwards(d) == (d + 3) % 4

\* Direction.next
next(d) == (d + 1) % 4

\* Ship.__init__
Ship(x, y, d, l) == [location |-> <<x, y>>, direction |-> d, length |-> l]

\* get_ship's "return None"
NoShip == Ship(None, None, NORTH, 0)

\* coordinate_list with range(1, length + 1): the cells after the origin
coordinate_list_from_one(ship) ==
    LET x == ship.location[1]
        y == ship.location[2]
    IN  CASE ship.direction = NORTH -> [i \in 1..ship.length |-> <<x, y - i>>]
          [] ship.direction = EAST  -> [i \in 1..ship.length |-> <<x + i, y>>]
          [] ship.direction = SOUTH -> [i \in 1..ship.length |-> <<x, y + i>>]
          [] ship.direction = WEST  -> [i \in 1..ship.length |-> <<x - i, y>>]

\* Ship.coordinate_list: index i of the model is i - 1 of range(length)
coordinate_list(ship) ==
    LET x == ship.location[1]
        y == ship.location[2]
    IN  CASE ship.direction = NORTH -> [i \in 1..ship.length |-> <<x, y - (i - 1)>>]
          [] ship.direction = EAST  -> [i \in 1..ship.length |-> <<x + (i - 1), y>>]
          [] ship.direction = SOUTH -> [i \in 1..ship.length |-> <<x, y + (i - 1)>>]
          [] ship.direction = WEST  -> [i \in 1..ship.length |-> <<x - (i - 1), y>>]

\* Ship.rotate
rotate(ship) == [ship EXCEPT !.direction = next(ship.direction)]

\* Board.__init__: the fields of a new board (size is the definition above)
Board(sizes) ==
    [ship_sizes |-> sizes, ships_list |-> <<>>, hits_list |-> <<>>,
     misses_list |-> <<>>]

\* in_range with the test "0 <= x" left out
in_range_no_lower(x) == x < size

\* "x in range(self.size)"
in_range(x) == x \in 0..(size - 1)

\* ships_overlap comparing with ship2.location instead of its coordinate_list
ships_overlap_origin_only(ship1, ship2) ==
    \E i \in 1..ship1.length : coordinate_list(ship1)[i] = ship2.location

\* Board.ships_overlap
ships_overlap(ship1, ship2) ==
    \E i \in 1..ship1.length : \E j \in 1..ship2.length :
        coordinate_list(ship1)[i] = coordinate_list(ship2)[j]

\* is_valid with the tests "x >= self.size or y >= self.size" left out
is_valid_no_upper(board, ship) ==
    /\ \A i \in 1..ship.length :
          LET x == coordinate_list(ship)[i][1]
              y == coordinate_list(ship)[i][2]
          IN  ~(x < 0 \/ y < 0)
    /\ \A k \in 1..Len(board.ships_list) :
          ~ships_overlap(ship, board.ships_list[k])

\* is_valid without the loop over the ships of the board
is_valid_bounds_only(board, ship) ==
    \A i \in 1..ship.length :
        LET x == coordinate_list(ship)[i][1]
            y == coordinate_list(ship)[i][2]
        IN  ~(x < 0 \/ y < 0 \/ x >= size \/ y >= size)

\* Board.is_valid
is_valid(board, ship) ==
    /\ \A i \in 1..ship.length :
          LET x == coordinate_list(ship)[i][1]
              y == coordinate_list(ship)[i][2]
          IN  ~(x < 0 \/ y < 0 \/ x >= size \/ y >= size)
    /\ \A k \in 1..Len(board.ships_list) :
          ~ships_overlap(ship, board.ships_list[k])

\* Board.add_ship: the value returned and the board afterwards
add_ship(board, ship) ==
    IF is_valid(board, ship)
    THEN [ret |-> TRUE,
          board |-> [board EXCEPT !.ships_list = Append(@, ship)]]
    ELSE [ret |-> FALSE, board |-> board]

\* list.remove: the first element equal to ship is dropped
list_remove(list, ship) ==
    LET k == CHOOSE i \in 1..Len(list) :
                 list[i] = ship /\ \A j \in 1..(i - 1) : list[j] # ship
    IN  [i \in 1..(Len(list) - 1) |-> IF i < k THEN list[i] ELSE list[i + 1]]

\* Board.remove_ship (called only for a ship of the list)
remove_ship(board, ship) ==
    [board EXCEPT !.ships_list = list_remove(@, ship)]

\* get_ship finding only the ship added last, and only at its origin
get_ship_last_origin(board, x, y) ==
    IF /\ board.ships_list # <<>>
       /\ board.ships_list[Len(board.ships_list)].location = <<x, y>>
    THEN board.ships_list[Len(board.ships_list)]
    ELSE NoShip

\* Board.get_ship: the first ship of the list lying over (x, y)
get_ship(board, x, y) ==
    LET over(k) == \E i \in 1..board.ships_list[k].length :
                       coordinate_list(board.ships_list[k])[i] = <<x, y>>
    IN  IF \E k \in 1..Len(board.ships_list) : over(k)
        THEN board.ships_list[CHOOSE k \in 1..Len(board.ships_list) :
                                  over(k) /\ \A j \in 1..(k - 1) : ~over(j)]
        ELSE NoShip

\* valid_target looking through hits_list only
valid_target_hits_only(board, x, y) ==
    IF ~in_range(x) \/ ~in_range(y)
    THEN FALSE
    ELSE ~\E i \in 1..Len(board.hits_list) : <<x, y>> = board.hits_list[i]

\* valid_target without the look through the shots made so far
valid_target_in_range_only(board, x, y) == in_range(x) /\ in_range(y)

\* Board.valid_target
valid_target(board, x, y) ==
    IF ~in_range(x) \/ ~in_range(y)
    THEN FALSE
    ELSE LET shots == board.misses_list \o board.hits_list
         IN  ~\E i \in 1..Len(shots) : <<x, y>> = shots[i]

\* shoot comparing with ship.location instead of the coordinate_list
shoot_origin_only(board, x, y) ==
    IF ~valid_target(board, x, y)
    THEN [ret |-> FALSE, board |-> board]
    ELSE IF \E k \in 1..Len(board.ships_list) :
               <<x, y>> = board.ships_list[k].location
         THEN [ret |-> TRUE,
               board |-> [board EXCEPT !.hits_list = Append(@, <<x, y>>)]]
         ELSE [ret |-> TRUE,
               board |-> [board EXCEPT !.misses_list = Append(@, <<x, y>>)]]

\* shoot taking a ship that is hit off the board
shoot_removes_ship(board, x, y) ==
    IF ~valid_target(board, x, y)
    THEN [ret |-> FALSE, board |-> board]
    ELSE IF get_ship(board, x, y) # NoShip
         THEN [ret |-> TRUE,
               board |-> [remove_ship(board, get_ship(board, x, y))
                             EXCEPT !.hits_list = Append(@, <<x, y>>)]]
         ELSE [ret |-> TRUE,
               board |-> [board EXCEPT !.misses_list = Append(@, <<x, y>>)]]

\* Board.shoot: the value returned and the board afterwards
shoot(board, x, y) ==
    IF ~valid_target(board, x, y)
    THEN [ret |-> FALSE, board |-> board]
    ELSE IF \E k \in 1..Len(board.ships_list) :
               \E i \in 1..board.ships_list[k].length :
                   <<x, y>> = coordinate_list(board.ships_list[k])[i]
         THEN [ret |-> TRUE,
               board |-> [board EXCEPT !.hits_list = Append(@, <<x, y>>)]]
         ELSE [ret |-> TRUE,
               board |-> [board EXCEPT !.misses_list = Append(@, <<x, y>>)]]

\* gameover looking at ship.location instead of the coordinate_list
gameover_origin_only(board) ==
    \A k \in 1..Len(board.ships_list) :
        \E h \in 1..Len(board.hits_list) :
            board.hits_list[h] = board.ships_list[k].location

\* Board.gameover
gameover(board) ==
    \A k \in 1..Len(board.ships_list) :
        \A i \in 1..board.ships_list[k].length :
            \E h \in 1..Len(board.hits_list) :
                board.hits_list[h] = coordinate_list(board.ships_list[k])[i]

\* sorted() leaving the list in the order given
sorted_as_given(list) == list

\* sorted(): insertion into a sorted list, then the list sorted
RECURSIVE sorted(_)
sorted(list) ==
    IF list = <<>>
    THEN <<>>
    ELSE LET rest == sorted(Tail(list))
             v == Head(list)
             n == Cardinality({i \in 1..Len(rest) : rest[i] < v})
         IN  SubSeq(rest, 1, n) \o <<v>> \o SubSeq(rest, n + 1, Len(rest))

\* ship_to_place with zip, which stops at the end of the shorter list
ship_to_place_zip(board) ==
    LET placed_sizes == sorted([k \in 1..Len(board.ships_list) |->
                                   board.ships_list[k].length])
        sizes == sorted(board.ship_sizes)
        n == IF Len(placed_sizes) < Len(sizes) THEN Len(placed_sizes)
             ELSE Len(sizes)
    IN  IF \E i \in 1..n : placed_sizes[i] # sizes[i]
        THEN sizes[CHOOSE i \in 1..n :
                       /\ placed_sizes[i] # sizes[i]
                       /\ \A j \in 1..(i - 1) : placed_sizes[j] = sizes[j]]
        ELSE None

\* PlayerBoard.ship_to_place: zip_longest pads the shorter list with None
ship_to_place(board) ==
    LET placed_sizes == sorted([k \in 1..Len(board.ships_list) |->
                                   board.ships_list[k].length])
        sizes == sorted(board.ship_sizes)
        n == IF Len(placed_sizes) > Len(sizes) THEN Len(placed_sizes)
             ELSE Len(sizes)
        placed(i) == IF i <= Len(placed_sizes) THEN placed_sizes[i] ELSE None
        to_place(i) == IF i <= Len(sizes) THEN sizes[i] ELSE None
    IN  IF \E i \in 1..n : placed(i) # to_place(i)
        THEN to_place(CHOOSE i \in 1..n :
                          /\ placed(i) # to_place(i)
                          /\ \A j \in 1..(i - 1) : placed(j) = to_place(j))
        ELSE None

\* Python's truth value of a ship length or None ("if self.ship_to_place")
truthy(v) == v # None /\ v # 0

\* Display.get_input: a cell of the board, or (None, None)
Cells == {<<x, y>> : x \in 0..(size - 1), y \in 0..(size - 1)}
Inputs == Cells \cup {<<None, None>>}

\* Game.gameover testing the player board first
Game_gameover_player_first(ai, player) ==
    IF gameover(player) THEN [ret |-> TRUE, printed |-> "lost"]
    ELSE IF gameover(ai) THEN [ret |-> TRUE, printed |-> "won"]
    ELSE [ret |-> FALSE, printed |-> ""]

\* Game.gameover: the value returned and the message printed
Game_gameover(ai, player) ==
    IF gameover(ai) THEN [ret |-> TRUE, printed |-> "won"]
    ELSE IF gameover(player) THEN [ret |-> TRUE, printed |-> "lost"]
    ELSE [ret |-> FALSE, printed |-> ""]

\* player_shot returning True whatever valid_target says
player_shot_always_true(ai, x, y) ==
    [ret |-> TRUE, board |-> shoot(ai, x, y).board]

\* Game.player_shot: the value returned and the AI board afterwards
player_shot(ai, x, y) ==
    IF valid_target(ai, x, y)
    THEN [ret |-> TRUE, board |-> shoot(ai, x, y).board]
    ELSE [ret |-> FALSE, board |-> ai]

\* ai_targets without the while loop: the first sample is shot at
ai_targets_first_sample(player) == Cells

\* Game.ai_shot: the (x, y) its while loop can end with: it resamples until
\* valid_target holds, so any valid target; with none left it never ends.
ai_targets(player) == {c \in Cells : valid_target(player, c[1], c[2])}

\* Game.ai_shot: the player board after the shot at the target sampled
ai_shot(player) ==
    {shoot(player, t[1], t[2]).board : t \in ai_targets(player)}

\* ------------------------------------------------------------- state

VARIABLES
    ai_board,       \* Game.ai_board; the board under test of the Board interface
    player_board,   \* Game.player_board
    direction,      \* the local "direction" of PlayerBoard.__init__
    ship_index,     \* position of AIBoard.__init__'s for loop in ship_sizes
    pc,             \* "ai_place", "ai_placed", "player_place", "play", "done"; "api"
    winner,         \* the message Game.gameover printed when play ended
    calls,          \* Board interface calls made so far
    last            \* the last Board interface call: op, arg, ret

vars == <<ai_board, player_board, direction, ship_index, pc, winner, calls, last>>

NoCall == [op |-> "", arg |-> <<>>, ret |-> FALSE]

\* The fleets a whole game is played with, and those each placement loop is
\* explored with.
GameFleets == {<<1>>, <<2>>}
PlaceFleets == {<<2, 1>>, <<1, 1>>, <<1, 2, 1>>, <<1, 1, 2>>}

\* The boards as their __init__ finds them after super().__init__, at the
\* first sample of AIBoard.__init__ or the first input of PlayerBoard.__init__
GameInit(fleets, start) ==
    /\ \E sizes \in fleets :
          /\ ai_board = Board(sizes)
          /\ player_board = Board(sizes)
    /\ direction = NORTH
    /\ ship_index = 1
    /\ pc = start
    /\ winner = ""
    /\ calls = 0
    /\ last = NoCall

\* AIBoard.__init__: one sample (x, y, ship_direction) of the while loop
AIBoard_place(x, y, ship_direction) ==
    /\ pc = "ai_place"
    /\ LET ship == Ship(x, y, ship_direction, ai_board.ship_sizes[ship_index])
       IN  IF is_valid(ai_board, ship)
           THEN /\ ai_board' = add_ship(ai_board, ship).board
                /\ ship_index' = ship_index + 1
                /\ pc' = IF ship_index = Len(ai_board.ship_sizes)
                         THEN "ai_placed" ELSE "ai_place"
           ELSE UNCHANGED <<ai_board, ship_index, pc>>
    /\ UNCHANGED <<player_board, direction, winner, calls, last>>

\* Game.__init__ goes on from AIBoard(...) to PlayerBoard(...), which starts
\* with an empty board and direction NORTH
PlayerBoard_init ==
    /\ pc = "ai_placed"
    /\ player_board' = Board(ai_board.ship_sizes)
    /\ direction' = NORTH
    /\ pc' = "player_place"
    /\ UNCHANGED <<ai_board, ship_index, winner, calls, last>>

\* The while loop leaving by itself with the ship that completes the fleet
PlayerBoard_click_auto(x, y) ==
    /\ pc = "player_place"
    /\ IF x # None /\ y # None
       THEN LET ship == get_ship(player_board, x, y)
            IN  IF ship # NoShip
                THEN LET removed == remove_ship(player_board, ship)
                         rotated == rotate(ship)
                     IN  /\ player_board' = IF is_valid(removed, rotated)
                                            THEN add_ship(removed, rotated).board
                                            ELSE removed
                         /\ UNCHANGED <<direction, pc>>
                ELSE LET new == Ship(x, y, direction, ship_to_place(player_board))
                         ok == is_valid(player_board, new)
                         b1 == IF ok THEN add_ship(player_board, new).board
                               ELSE player_board
                         over == ~truthy(ship_to_place(b1))
                     IN  /\ truthy(ship_to_place(player_board))
                         /\ player_board' = b1
                         /\ direction' = IF over THEN NORTH
                                         ELSE IF ok THEN direction
                                         ELSE next(direction)
                         /\ pc' = IF over THEN "play" ELSE pc
       ELSE UNCHANGED <<player_board, direction, pc>>
    /\ UNCHANGED <<ai_board, ship_index, winner, calls, last>>

\* PlayerBoard.__init__: one iteration of the while loop, on input (x, y)
PlayerBoard_click(x, y) ==
    /\ pc = "player_place"
    /\ IF x # None /\ y # None
       THEN LET ship == get_ship(player_board, x, y)
            IN  IF ship # NoShip
                THEN LET removed == remove_ship(player_board, ship)
                         rotated == rotate(ship)
                         b1 == IF is_valid(removed, rotated)
                               THEN add_ship(removed, rotated).board
                               ELSE removed
                         b2 == IF is_valid(b1, rotated)
                               THEN add_ship(b1, rotated).board
                               ELSE b1
                     IN  /\ player_board' = b2
                         /\ UNCHANGED <<direction, pc>>
                ELSE IF truthy(ship_to_place(player_board))
                THEN LET new == Ship(x, y, direction, ship_to_place(player_board))
                         ok == is_valid(player_board, new)
                         b1 == IF ok THEN add_ship(player_board, new).board
                               ELSE player_board
                         b2 == IF is_valid(b1, new)
                               THEN add_ship(b1, new).board
                               ELSE b1
                     IN  /\ player_board' = b2
                         /\ direction' = IF ok THEN direction ELSE next(direction)
                         /\ UNCHANGED pc
                ELSE \* break: __init__ returns and its local goes out of scope
                     /\ pc' = "play"
                     /\ direction' = NORTH
                     /\ UNCHANGED player_board
       ELSE UNCHANGED <<player_board, direction, pc>>
    /\ UNCHANGED <<ai_board, ship_index, winner, calls, last>>

\* Game.play: one iteration of the while loop, on input (x, y)
Game_play(x, y) ==
    /\ pc = "play"
    /\ ~Game_gameover(ai_board, player_board).ret
    /\ IF player_shot(ai_board, x, y).ret
       THEN /\ ai_board' = player_shot(ai_board, x, y).board
            /\ player_board' \in ai_shot(player_board)
       ELSE UNCHANGED <<ai_board, player_board>>
    /\ UNCHANGED <<direction, ship_index, pc, winner, calls, last>>

\* Game.play: the loop test finds the game over and play returns
Game_over ==
    /\ pc = "play"
    /\ Game_gameover(ai_board, player_board).ret
    /\ pc' = "done"
    /\ winner' = Game_gameover(ai_board, player_board).printed
    /\ UNCHANGED <<ai_board, player_board, direction, ship_index, calls, last>>

Place ==
    \/ \E x \in 0..(size - 1), y \in 0..(size - 1), d \in Direction :
          AIBoard_place(x, y, d)
    \/ \E input \in Inputs : PlayerBoard_click(input[1], input[2])

Play ==
    \/ \E input \in Inputs : Game_play(input[1], input[2])
    \/ Game_over

\* A whole game: Game.__init__, then Game.play
Init == GameInit(GameFleets, "ai_place")
Next == Place \/ PlayerBoard_init \/ Play
Spec == Init /\ [][Next]_vars

\* Each placement loop on its own, AIBoard.__init__ or PlayerBoard.__init__,
\* with fleets of several ships
InitPlace ==
    \/ GameInit(PlaceFleets, "ai_place")
    \/ GameInit(PlaceFleets, "player_place")
NextPlace == Place
SpecPlace == InitPlace /\ [][NextPlace]_vars

\* ------------------------------------------ the Board interface, call by call

\* The ships add_ship and is_valid are called with: origins on the board and
\* one cell outside it on every side, every direction, lengths 1..MaxShipLen.
Candidates ==
    {Ship(x, y, d, l) : x \in -1..size, y \in -1..size,
                        d \in Direction, l \in 1..MaxShipLen}

\* The targets shoot is called with: the cells, one cell outside the board on
\* every side, and the (None, None) of "no input".
Targets == {<<x, y>> : x \in -1..size, y \in -1..size} \cup {<<None, None>>}

Call(op, arg, ret) == [op |-> op, arg |-> arg, ret |-> ret]

BoardInit ==
    /\ ai_board = Board(<<>>)
    /\ player_board = Board(<<>>)
    /\ direction = NORTH
    /\ ship_index = 1
    /\ pc = "api"
    /\ winner = ""
    /\ calls = 0
    /\ last = NoCall

Called ==
    /\ pc = "api"
    /\ calls < MaxCalls
    /\ calls' = calls + 1
    /\ UNCHANGED <<player_board, direction, ship_index, pc, winner>>

\* a call of Board.is_valid
call_is_valid(ship) ==
    /\ Called
    /\ last' = Call("is_valid", ship, is_valid(ai_board, ship))
    /\ UNCHANGED ai_board

\* a call of Board.add_ship
call_add_ship(ship) ==
    /\ Called
    /\ last' = Call("add_ship", ship, add_ship(ai_board, ship).ret)
    /\ ai_board' = add_ship(ai_board, ship).board

\* a call of Board.remove_ship, for a ship of the board
call_remove_ship(k) ==
    /\ Called
    /\ last' = Call("remove_ship", ai_board.ships_list[k], FALSE)
    /\ ai_board' = remove_ship(ai_board, ai_board.ships_list[k])

\* a call of Board.shoot
call_shoot(x, y) ==
    /\ Called
    /\ last' = Call("shoot", <<x, y>>, shoot(ai_board, x, y).ret)
    /\ ai_board' = shoot(ai_board, x, y).board

\* a read of Board.gameover
call_gameover ==
    /\ Called
    /\ last' = Call("gameover", <<>>, gameover(ai_board))
    /\ UNCHANGED ai_board

BoardNext ==
    \/ \E ship \in Candidates : call_is_valid(ship)
    \/ \E ship \in Candidates : call_add_ship(ship)
    \/ \E k \in 1..Len(ai_board.ships_list) : call_remove_ship(k)
    \/ \E t \in Targets : call_shoot(t[1], t[2])
    \/ call_gameover

\* Any MaxCalls calls of the Board interface on a new board
SpecBoard == BoardInit /\ [][BoardNext]_vars

\* ------------------------------------------------------------ properties

\* The notions the properties are stated in: sets of cells, not the lists.
Range(list) == {list[i] : i \in 1..Len(list)}
Hits(board) == Range(board.hits_list)
Misses(board) == Range(board.misses_list)
ShipCells(ship) == Range(coordinate_list(ship))
FleetCells(board) == UNION {ShipCells(s) : s \in Range(board.ships_list)}
OnBoard(c) == c[1] >= 0 /\ c[1] < size /\ c[2] >= 0 /\ c[2] < size
NumShots(board) == Len(board.hits_list) + Len(board.misses_list)
AllHit(board) == FleetCells(board) \subseteq Hits(board)
ApiStep(op) == pc = "api" /\ calls' = calls + 1 /\ last'.op = op

\* C1: a shoot at a target off the board or already in hits or misses returns
\* False and leaves the board as it was; a shoot at any other target returns
\* True and appends that one coordinate to hits when it is a cell of a ship,
\* to misses otherwise, and changes nothing else.
C1_ShootContract ==
    [][ApiStep("shoot") =>
          LET c == last'.arg
          IN  IF ~OnBoard(c) \/ c \in Hits(ai_board) \cup Misses(ai_board)
              THEN last'.ret = FALSE /\ ai_board' = ai_board
              ELSE /\ last'.ret = TRUE
                   /\ ai_board'.ships_list = ai_board.ships_list
                   /\ IF c \in FleetCells(ai_board)
                      THEN /\ ai_board'.hits_list = Append(ai_board.hits_list, c)
                           /\ ai_board'.misses_list = ai_board.misses_list
                      ELSE /\ ai_board'.misses_list = Append(ai_board.misses_list, c)
                           /\ ai_board'.hits_list = ai_board.hits_list]_vars

\* A second shoot at a cell that was hit before has been refused.
C1_Witness ==
    /\ last.op = "shoot"
    /\ last.ret = FALSE
    /\ last.arg \in Hits(ai_board)

\* C2: in Game.play an iteration either leaves both boards as they were or
\* adds one shot to the AI board and one to the player board; an input that is
\* no valid target of the AI board does the former, a valid one the latter;
\* so at the head of the loop both boards hold the same number of shots.
C2_TurnNotConsumed ==
    [][(pc = "play" /\ pc' = "play") =>
          /\ NumShots(ai_board) = NumShots(player_board)
          /\ NumShots(ai_board') = NumShots(player_board')
          /\ \/ ai_board' = ai_board /\ player_board' = player_board
             \/ /\ NumShots(ai_board') = NumShots(ai_board) + 1
                /\ NumShots(player_board') = NumShots(player_board) + 1
          /\ \A input \in Inputs :
                Game_play(input[1], input[2]) =>
                    IF input \in Cells \ (Hits(ai_board) \cup Misses(ai_board))
                    THEN /\ NumShots(ai_board') = NumShots(ai_board) + 1
                         /\ NumShots(player_board') = NumShots(player_board) + 1
                    ELSE ai_board' = ai_board /\ player_board' = player_board]_vars

\* The head of the loop after two rounds, with the game still on.
C2_Witness ==
    /\ pc = "play"
    /\ NumShots(ai_board) = 2
    /\ NumShots(player_board) = 2
    /\ ~AllHit(ai_board)
    /\ ~AllHit(player_board)

\* C3: when a player shot hits the last cell of the AI fleet, the player
\* board is not shot at any more.
C3_NoShotAfterTerminal ==
    [][(pc = "play" /\ ~AllHit(ai_board) /\ AllHit(ai_board')) =>
          player_board' = player_board]_vars

\* C4: Board.gameover is true exactly when every cell of every ship is in
\* hits; a shoot turns it from false to true exactly when its target is a
\* valid target and the one ship cell not hit yet; reading it changes nothing.
C4_GameoverIffAllHit ==
    [][/\ gameover(ai_board) <=> AllHit(ai_board)
       /\ gameover(ai_board') <=> AllHit(ai_board')
       /\ ApiStep("shoot") =>
             ((~gameover(ai_board) /\ gameover(ai_board')) <=>
                 /\ last'.ret
                 /\ FleetCells(ai_board) \ Hits(ai_board) = {last'.arg})
       /\ ApiStep("gameover") =>
             /\ ai_board' = ai_board
             /\ last'.ret = AllHit(ai_board)]_vars

\* The shot that hit the second cell of a ship of length 2 ended the game.
C4_Witness ==
    /\ last.op = "shoot"
    /\ last.ret
    /\ gameover(ai_board)
    /\ Len(ai_board.ships_list) = 1
    /\ ai_board.ships_list[1].length = 2

\* C5: when play has ended a board is all hit; the message is "won" exactly
\* when the AI board is all hit (also when the player board is too) and "lost"
\* exactly when only the player board is; and the loop goes on exactly while
\* no board is all hit.
C5_Winner ==
    [][/\ pc' = "done" =>
             /\ AllHit(ai_board') \/ AllHit(player_board')
             /\ winner' = "won" <=> AllHit(ai_board')
             /\ winner' = "lost" <=> (~AllHit(ai_board') /\ AllHit(player_board'))
       /\ (pc = "play" /\ pc' = "play") =>
             ~(AllHit(ai_board) \/ AllHit(player_board))
       /\ (pc = "play" /\ pc' = "done") =>
             /\ AllHit(ai_board) \/ AllHit(player_board)
             /\ ai_board' = ai_board
             /\ player_board' = player_board]_vars

\* Play ended with both fleets all hit, and the player was told "won".
C5_Witness ==
    /\ pc = "done"
    /\ AllHit(ai_board)
    /\ AllHit(player_board)
    /\ winner = "won"

\* C6: add_ship returns True and appends the ship exactly when every cell of
\* the ship is on the board and none is a cell of a ship already placed;
\* otherwise it returns False and ships_list is as it was; hits and misses
\* are never touched, and is_valid changes nothing.
C6_AddShipContract ==
    [][/\ ApiStep("add_ship") =>
             LET ship == last'.arg
                 fits == /\ \A c \in ShipCells(ship) : OnBoard(c)
                         /\ ShipCells(ship) \cap FleetCells(ai_board) = {}
             IN  /\ last'.ret = fits
                 /\ ai_board'.ships_list =
                        IF fits THEN Append(ai_board.ships_list, ship)
                        ELSE ai_board.ships_list
                 /\ ai_board'.hits_list = ai_board.hits_list
                 /\ ai_board'.misses_list = ai_board.misses_list
       /\ ApiStep("is_valid") => ai_board' = ai_board]_vars

\* A ship lying wholly on the board was refused for a cell it shares with the
\* second of two ships placed before.
C6_Witness ==
    /\ last.op = "add_ship"
    /\ last.ret = FALSE
    /\ \A c \in ShipCells(last.arg) : OnBoard(c)
    /\ Len(ai_board.ships_list) = 2
    /\ ShipCells(last.arg) \cap ShipCells(ai_board.ships_list[1]) = {}

\* C7: on both boards, in every state of placement, no two ships of
\* ships_list share a cell and every cell of every ship is on the board.
C7_ShipsDisjointOnBoard ==
    \A board \in {ai_board, player_board} :
        /\ \A k \in 1..Len(board.ships_list) :
              \A c \in ShipCells(board.ships_list[k]) : OnBoard(c)
        /\ \A j, k \in 1..Len(board.ships_list) :
              j # k => ShipCells(board.ships_list[j]) \cap
                           ShipCells(board.ships_list[k]) = {}

\* Interactive placement with two ships on the board, the later one placed
\* before the earlier one (a ship was put back by a rotation), after a
\* candidate was refused.
C7_Witness ==
    /\ pc = "player_place"
    /\ Len(player_board.ships_list) = 2
    /\ player_board.ships_list[1].length = 2
    /\ player_board.ships_list[2].length = 1
    /\ direction # NORTH

\* C8: after any calls of shoot, hits and misses share no coordinate, no
\* coordinate is twice in hits_list + misses_list, and each is on the board.
C8_ShotsDistinct ==
    \A board \in {ai_board, player_board} :
        LET shots == board.hits_list \o board.misses_list
        IN  /\ Hits(board) \cap Misses(board) = {}
            /\ \A i, j \in 1..Len(shots) : shots[i] = shots[j] => i = j
            /\ \A i \in 1..Len(shots) : OnBoard(shots[i])

\* A board with a ship, a hit and a miss, the last call a shoot.
C8_Witness ==
    /\ last.op = "shoot"
    /\ Len(ai_board.hits_list) = 1
    /\ Len(ai_board.misses_list) = 1

\* C9: in a game every coordinate of a board's hits is a cell of a ship of
\* that board, and no coordinate of its misses is.
C9_HitsOnShips ==
    \A board \in {ai_board, player_board} :
        /\ Hits(board) \subseteq FleetCells(board)
        /\ Misses(board) \cap FleetCells(board) = {}

\* Play has ended with a hit and a miss on each board.
C9_Witness ==
    /\ pc = "done"
    /\ \A board \in {ai_board, player_board} :
          Hits(board) # {} /\ Misses(board) # {}

\* The lengths of the ships on the board are, as a multiset, ship_sizes.
FleetComplete(board) ==
    \A l \in Range(board.ship_sizes) \cup
             {s.length : s \in Range(board.ships_list)} :
        Cardinality({k \in 1..Len(board.ships_list) :
                        board.ships_list[k].length = l}) =
        Cardinality({k \in 1..Len(board.ship_sizes) : board.ship_sizes[k] = l})

ValidFleet(board) ==
    /\ \A c \in FleetCells(board) : OnBoard(c)
    /\ \A j, k \in 1..Len(board.ships_list) :
          j # k => ShipCells(board.ships_list[j]) \cap
                       ShipCells(board.ships_list[k]) = {}

\* C10: once AIBoard.__init__ has returned the AI board holds exactly the
\* lengths of ship_sizes, on the board and disjoint; once the loop of
\* PlayerBoard.__init__ has been left the player board does; the loop is
\* not left with a length of ship_sizes still to place.
C10_PlacementComplete ==
    /\ pc = "ai_placed" => FleetComplete(ai_board) /\ ValidFleet(ai_board)
    /\ pc = "play" => FleetComplete(player_board) /\ ValidFleet(player_board)

\* The interactive loop has been left with the fleet <<2, 1>> on the board,
\* the ship of length 2 before the ship of length 1.
C10_Witness ==
    /\ pc = "play"
    /\ player_board.ship_sizes = <<2, 1>>
    /\ Len(player_board.ships_list) = 2
    /\ player_board.ships_list[1].length = 2

\* C11: every shot of the AI is at a cell of the board that is in neither
\* hits nor misses of the player board when it is fired: shoot returns True
\* for every target ai_shot can end with, and an iteration of play in which
\* the AI shoots appends exactly one such coordinate to hits or to misses.
C11_AiShotValid ==
    [][(pc = "play" /\ pc' = "play") =>
          /\ \A t \in ai_targets(player_board) :
                /\ shoot(player_board, t[1], t[2]).ret
                /\ t \in Cells \ (Hits(player_board) \cup Misses(player_board))
          /\ ai_board' # ai_board =>
                \E c \in Cells \ (Hits(player_board) \cup Misses(player_board)) :
                    \/ /\ player_board'.hits_list =
                              Append(player_board.hits_list, c)
                       /\ player_board'.misses_list = player_board.misses_list
                       /\ c \in FleetCells(player_board)
                    \/ /\ player_board'.misses_list =
                              Append(player_board.misses_list, c)
                       /\ player_board'.hits_list = player_board.hits_list
                       /\ c \notin FleetCells(player_board)]_vars

\* The AI has fired three times, at two cells of water and a ship.
C11_Witness ==
    /\ pc = "play"
    /\ Len(player_board.misses_list) = 2
    /\ Len(player_board.hits_list) = 1

\* The ships a sample of AIBoard.__init__ can build for a length
Samples(length) ==
    {Ship(x, y, d, length) : x \in 0..(size - 1), y \in 0..(size - 1),
                             d \in Direction}

\* Some arrangement of the ships k.. of the fleet fits next to those on board
RECURSIVE CanArrange(_, _)
CanArrange(board, k) ==
    \/ k > Len(board.ship_sizes)
    \/ \E ship \in Samples(board.ship_sizes[k]) :
          /\ ShipCells(ship) \subseteq Cells
          /\ ShipCells(ship) \cap FleetCells(board) = {}
          /\ CanArrange([board EXCEPT !.ships_list = Append(@, ship)], k + 1)

\* The whole fleet has an arrangement on the empty board
FleetFits(sizes) == CanArrange(Board(sizes), 1)

\* C12: when the fleet fits on the board, every state of the automated
\* placement loop has a valid origin and facing for the length being placed,
\* so that the loop has no dead end.
C12_NoDeadEnd ==
    (pc = "ai_place" /\ FleetFits(ai_board.ship_sizes)) =>
        \E ship \in Samples(ai_board.ship_sizes[ship_index]) :
            is_valid(ai_board, ship)

\* How often a length occurs in a list of lengths
Count(list, l) == Cardinality({i \in 1..Len(list) : list[i] = l})

\* The lengths of the ships on a board, in the order of ships_list
Lengths(board) ==
    [i \in 1..Len(board.ships_list) |-> board.ships_list[i].length]

\* The lengths of a fleet from the smallest to the largest
Ascending(sizes) ==
    CHOOSE asc \in [1..Len(sizes) -> Range(sizes)] :
        /\ \A i \in 1..(Len(sizes) - 1) : asc[i] <= asc[i + 1]
        /\ \A l \in Range(sizes) : Count(asc, l) = Count(sizes, l)

\* C13 as stated: with the first k-1 lengths of ship_sizes on the board, the
\* length the player is asked for is ship_sizes[k], the order given.
C13_OrderGiven ==
    pc = "player_place" =>
        LET k == Len(player_board.ships_list) + 1
        IN  (/\ k <= Len(player_board.ship_sizes)
             /\ Lengths(player_board) =
                    SubSeq(player_board.ship_sizes, 1, k - 1)) =>
                ship_to_place(player_board) = player_board.ship_sizes[k]

\* C13 amended: with the k-1 smallest lengths of the fleet on the board, the
\* length the player is asked for is the k-th smallest of ship_sizes: the
\* fleet is asked for in ascending order, whatever the order of ship_sizes.
C13_AscendingOrder ==
    pc = "player_place" =>
        LET k == Len(player_board.ships_list) + 1
            asc == Ascending(player_board.ship_sizes)
        IN  (/\ k <= Len(player_board.ship_sizes)
             /\ \A l \in Range(player_board.ship_sizes)
                       \cup Range(Lengths(player_board)) :
                    Count(Lengths(player_board), l) =
                        Count(SubSeq(asc, 1, k - 1), l)) =>
                ship_to_place(player_board) = asc[k]

\* Of the fleet [2, 1] the ship of length 1 is placed and 2 is asked for.
C13_Witness ==
    /\ pc = "player_place"
    /\ player_board.ship_sizes = <<2, 1>>
    /\ Lengths(player_board) = <<1>>
    /\ ship_to_place(player_board) = 2

\* C14 as stated: the loop is left with the ship that completes the fleet,
\* so that it never waits for an input with as many ships as the fleet has.
C14_AutoComplete ==
    pc = "player_place" =>
        Len(player_board.ships_list) < Len(player_board.ship_sizes)

\* C14 amended: the loop is not left by the step that places the last ship.
\* It is left by a later input, exactly when that input is a cell of the
\* board under no ship and the board has as many ships as the fleet; that
\* step leaves the board as it is.
C14_ExitOnFreeClick ==
    [][pc = "player_place" =>
          /\ pc' = "play" =>
                /\ player_board' = player_board
                /\ Len(player_board.ships_list) = Len(player_board.ship_sizes)
                /\ FleetComplete(player_board)
          /\ \A input \in Inputs :
                PlayerBoard_click(input[1], input[2]) =>
                    (pc' = "play" <=>
                        /\ input \in Cells \ FleetCells(player_board)
                        /\ Len(player_board.ships_list) =
                               Len(player_board.ship_sizes))]_vars

\* The loop has been left with the fleet [1, 1] on the board.
C14_Witness ==
    /\ pc = "play"
    /\ player_board.ship_sizes = <<1, 1>>
    /\ Len(player_board.ships_list) = 2

\* C15 as stated: from a state in which the lengths on a board are those of
\* its fleet, the ships of that board never change again, in placement or play.
C15_ClosedOnceComplete ==
    [][/\ FleetComplete(ai_board) =>
              ai_board'.ships_list = ai_board.ships_list
       /\ FleetComplete(player_board) =>
              player_board'.ships_list = player_board.ships_list]_vars

\* C15 amended: the ships of a board never change once its placement loop
\* has ended: those of the AI board after AIBoard.__init__, those of the
\* player board during play. While the interactive loop runs, a complete
\* fleet still changes: each ship stays as it is, or is the clicked ship
\* rotated one step, or is taken off the board.
C15_ClosedAfterPlacement ==
    [][/\ pc # "ai_place" => ai_board'.ships_list = ai_board.ships_list
       /\ pc \in {"play", "done"} =>
              player_board'.ships_list = player_board.ships_list
       /\ (pc = "player_place" /\ FleetComplete(player_board)) =>
              /\ Len(player_board'.ships_list) \in
                     {Len(player_board.ships_list),
                      Len(player_board.ships_list) - 1}
              /\ \A new \in Range(player_board'.ships_list) :
                     \E old \in Range(player_board.ships_list) :
                         /\ new.location = old.location
                         /\ new.length = old.length
                         /\ new.direction \in
                                {old.direction, (old.direction + 1) % 4}]_vars

\* The game is over, with shots on both boards, and the player's one ship,
\* placed facing north, was rotated three times before the loop was left.
C15_Witness ==
    /\ pc = "done"
    /\ player_board.ship_sizes = <<1>>
    /\ Len(player_board.ships_list) = 1
    /\ player_board.ships_list[1].direction = WEST
    /\ NumShots(player_board) >= 1
    /\ NumShots(ai_board) >= 1

\* C16: in a game with the fleet [1], every sample of the automated placement
\* is accepted on the empty board and ends the placement; a first valid shot
\* of the player at the cell of the AI's ship leaves the AI board with that
\* one hit and no miss and the game over with the player as winner; and from
\* a board with one hit and no miss the play loop does nothing but end, with
\* "won", so that no second player shot is made.
C16_OneShotWin ==
    [][ai_board.ship_sizes = <<1>> =>
          /\ pc = "ai_place" =>
                /\ \A ship \in Samples(1) : is_valid(ai_board, ship)
                /\ pc' = "ai_placed"
                /\ Len(ai_board'.ships_list) = 1
          /\ \A input \in Cells :
                (/\ Game_play(input[1], input[2])
                 /\ NumShots(ai_board) = 0
                 /\ input \in FleetCells(ai_board)) =>
                    /\ ai_board'.hits_list = <<input>>
                    /\ ai_board'.misses_list = <<>>
                    /\ Game_gameover(ai_board', player_board').ret
                    /\ Game_gameover(ai_board', player_board').printed = "won"
          /\ (/\ pc = "play"
              /\ Len(ai_board.hits_list) = 1
              /\ Len(ai_board.misses_list) = 0) =>
                /\ pc' = "done"
                /\ winner' = "won"
                /\ ai_board' = ai_board]_vars

\* The game with the fleet [1] is over after one shot of the player, a hit.
C16_Witness ==
    /\ pc = "done"
    /\ winner = "won"
    /\ ai_board.ship_sizes = <<1>>
    /\ Len(ai_board.hits_list) = 1
    /\ Len(ai_board.misses_list) = 0

\* The smallest length of the fleet of which the board has too few ships
Required(board) ==
    LET missing == {l \in Range(board.ship_sizes) :
                       Count(Lengths(board), l) < Count(board.ship_sizes, l)}
    IN  IF missing = {} THEN None
        ELSE CHOOSE l \in missing : \A m \in missing : l <= m

\* The cyclic order North -> East -> South -> West -> North
Clockwise(d) ==
    CASE d = NORTH -> EAST
      [] d = EAST  -> SOUTH
      [] d = SOUTH -> WEST
      [] d = WEST  -> NORTH

\* A ship lies on the board and on no cell of a ship of the board
Fits(board, ship) ==
    /\ ShipCells(ship) \subseteq Cells
    /\ ShipCells(ship) \cap FleetCells(board) = {}

\* C17: in interactive placement a click on a cell under no ship, while a
\* length is required, builds the candidate with the cell as origin, the
\* current facing and the required length. If it fits, exactly that ship is
\* added and the facing stays; if not, the ships stay as they are, the facing
\* advances one step North -> East -> South -> West -> North and the required
\* length stays the same.
C17_FreeCellClick ==
    [][pc = "player_place" =>
          \A input \in Cells :
              (/\ PlayerBoard_click(input[1], input[2])
               /\ input \notin FleetCells(player_board)
               /\ Required(player_board) # None) =>
                  LET cand == [location |-> input, direction |-> direction,
                               length |-> Required(player_board)]
                  IN  IF Fits(player_board, cand)
                      THEN /\ player_board'.ships_list =
                                  Append(player_board.ships_list, cand)
                           /\ direction' = direction
                      ELSE /\ player_board'.ships_list =
                                  player_board.ships_list
                           /\ direction' = Clockwise(direction)
                           /\ Required(player_board') = Required(player_board)
                           /\ ship_to_place(player_board') =
                                  Required(player_board)]_vars

\* Three candidates of length 2 were rejected after the ship of length 1.
C17_Witness ==
    /\ pc = "player_place"
    /\ player_board.ship_sizes = <<2, 1>>
    /\ Lengths(player_board) = <<1>>
    /\ direction = WEST

\* A list without its k-th entry
Without(list, k) == SubSeq(list, 1, k - 1) \o SubSeq(list, k + 1, Len(list))

\* The first ship of ships_list that lies over a cell
ShipAt(board, c) ==
    CHOOSE k \in 1..Len(board.ships_list) :
        /\ c \in ShipCells(board.ships_list[k])
        /\ \A j \in 1..(k - 1) : c \notin ShipCells(board.ships_list[j])

\* C18 as stated: a click on any cell other than the origin of the ship
\* placed last leaves the origin and facing of every placed ship unchanged.
C18_RotateOnlyOnOrigin ==
    [][pc = "player_place" =>
          \A input \in Cells :
              (/\ PlayerBoard_click(input[1], input[2])
               /\ player_board.ships_list # <<>>
               /\ input # player_board.ships_list[
                               Len(player_board.ships_list)].location) =>
                  Range(player_board.ships_list) \subseteq
                      Range(player_board'.ships_list)]_vars

\* C18 amended: rotate-in-place is triggered by a click on any cell of any
\* placed ship, the origin or not, the ship placed last or an earlier one:
\* that ship leaves its place in ships_list and, at most, comes back at the
\* end with the same origin and length and the facing one step on; the other
\* ships keep origin, facing and order. A click on a cell under no ship
\* leaves every placed ship as it is.
C18_RotateOnAnyShipCell ==
    [][pc = "player_place" =>
          \A input \in Cells :
              PlayerBoard_click(input[1], input[2]) =>
                  IF input \in FleetCells(player_board)
                  THEN LET k == ShipAt(player_board, input)
                           others == Without(player_board.ships_list, k)
                           rotated == [player_board.ships_list[k] EXCEPT
                                          !.direction = Clockwise(@)]
                       IN  /\ player_board'.ships_list \in
                                  {others, Append(others, rotated)}
                           /\ pc' = pc
                  ELSE /\ Len(player_board'.ships_list) >=
                              Len(player_board.ships_list)
                       /\ \A k \in 1..Len(player_board.ships_list) :
                              player_board'.ships_list[k] =
                                  player_board.ships_list[k]]_vars

\* The ship of length 1, placed first and facing north, has come back at the
\* end of the list facing south after the ship of length 2 was placed.
C18_Witness ==
    /\ pc = "player_place"
    /\ player_board.ship_sizes = <<2, 1>>
    /\ Lengths(player_board) = <<2, 1>>
    /\ player_board.ships_list[2].direction = SOUTH
    /\ direction = NORTH

\* C19: in interactive placement a click on a cell of a placed ship takes
\* that ship off the board and advances its facing one step, origin and
\* length unchanged. If the rotated ship fits next to the other ships it is
\* on the board exactly once afterwards and the number of ships is the same;
\* if not it stays off the board, the number of ships is one less and
\* ship_to_place returns a length that has to be placed.
C19_ClickOnShip ==
    [][pc = "player_place" =>
          \A input \in Cells :
              (/\ PlayerBoard_click(input[1], input[2])
               /\ input \in FleetCells(player_board)) =>
                  LET k == ShipAt(player_board, input)
                      old == player_board.ships_list[k]
                      rotated == [location |-> old.location,
                                  direction |-> Clockwise(old.direction),
                                  length |-> old.length]
                      rest == [player_board EXCEPT
                                  !.ships_list = Without(@, k)]
                  IN  /\ old \notin Range(player_board'.ships_list)
                      /\ Range(rest.ships_list) \subseteq
                             Range(player_board'.ships_list)
                      /\ IF Fits(rest, rotated)
                         THEN /\ Count(player_board'.ships_list, rotated) = 1
                              /\ Len(player_board'.ships_list) =
                                     Len(player_board.ships_list)
                         ELSE /\ rotated \notin Range(player_board'.ships_list)
                              /\ Len(player_board'.ships_list) =
                                     Len(player_board.ships_list) - 1
                              /\ truthy(ship_to_place(player_board'))
                              /\ ship_to_place(player_board') =
                                     Required(player_board')
                              /\ ship_to_place(player_board') <= old.length]_vars

\* The fleet [2, 1] is on the board and its ship of length 2, placed last at
\* (0, 1), faces east with the facing for new ships still north: it was
\* rotated in place.
C19_Witness ==
    /\ pc = "player_place"
    /\ player_board.ship_sizes = <<2, 1>>
    /\ Lengths(player_board) = <<1, 2>>
    /\ player_board.ships_list[2] = Ship(0, 1, EAST, 2)
    /\ direction = NORTH

\* C20: whenever play invokes ai_shot, that is after a valid shot of the
\* player in a game that is not over, fewer than size * size cells of the
\* player's board are shot and the AI's loop has a valid target to end with;
\* the player makes at most size * size valid shots in a game, and after
\* size * size of them the game is over.
C20_AiTargetLeft ==
    pc \in {"play", "done"} =>
        /\ NumShots(ai_board) <= size * size
        /\ NumShots(ai_board) = size * size =>
               Game_gameover(ai_board, player_board).ret
        /\ pc = "play" =>
               \A input \in Inputs :
                   (/\ ~Game_gameover(ai_board, player_board).ret
                    /\ player_shot(ai_board, input[1], input[2]).ret) =>
                       /\ Cardinality(Hits(player_board) \cup
                                      Misses(player_board)) < size * size
                       /\ ai_targets(player_board) # {}
                       /\ ai_shot(player_board) # {}

\* The game is not over and all cells of the player's board but one are shot:
\* the next ai_shot has one valid target left.
C20_Witness ==
    /\ pc = "play"
    /\ ~Game_gameover(ai_board, player_board).ret
    /\ Cardinality(Hits(player_board) \cup Misses(player_board)) =
           size * size - 1
    /\ Cardinality(ai_targets(player_board)) = 1

====
